---- MODULE Spec2Model ----
\* BIP32 hierarchical deterministic key derivation, BRBIP32Sequence.c.
\*
\* The 256-bit scalars, 32-bit indices and the secp256k1 group are scaled down:
\* a UInt256 is ScalarBits wide, a uint32_t index is IndexBits wide, and the
\* curve is the subgroup of order CurveOrder of the units modulo FieldPrime.
\* A BRPubKey is a group element 1..FieldPrime-1, or 0 for the all-zero key.
\*
\* Each step of the model is one call. op names the function called, args holds
\* its arguments, ret what it returned or left in its output parameters, and
\* locals the secret-bearing locals of BRBIP32MasterPubKey as the call left
\* them. watch and first record, for one seed, the first record
\* BRBIP32MasterPubKey returned for it.
EXTENDS Integers, Sequences, FiniteSets, TLC

VARIABLES op, args, ret, locals, watch, first

vars == <<op, args, ret, locals, watch, first>>

----------------------------------------------------------------------------
\* Bounds of the model.

ScalarBits == 4
IndexBits == 3
ByteBits == 2
MaxSeedLen == 2
MaxKeys == 2

SeedBytes == {0, 1}

RECURSIVE Pow2(_)
Pow2(e) == IF e = 0 THEN 1 ELSE 2 * Pow2(e - 1)

ScalarMod == Pow2(ScalarBits)
UInt256 == 0 .. (ScalarMod - 1)
UInt512Mod == ScalarMod * ScalarMod
Indices == 0 .. (Pow2(IndexBits) - 1)
IndexBytes == (IndexBits + ByteBits - 1) \div ByteBits

----------------------------------------------------------------------------
\* Constants of the source.

BIP32_HARD == Pow2(IndexBits - 1)
BIP32_SEED_KEY == <<66, 105, 116, 99, 111, 105, 110, 32, 115, 101, 101, 100>>
BIP32_XPRV == <<4, 136, 173, 228>>
BIP32_XPUB == <<4, 136, 178, 30>>

\* i & BIP32_HARD
IsHard(i) == (i \div BIP32_HARD) % 2 = 1

----------------------------------------------------------------------------
\* Collaborators: curve arithmetic, hashing, BRKey.

CurveOrder == 11
FieldPrime == 23
Generator == 2

RECURSIVE PowMod(_, _, _)
PowMod(b, e, m) == IF e = 0 THEN 1 % m ELSE (b * PowMod(b, e - 1, m)) % m

\* secp256k1_point_mul(r, NULL, i, 1): r = i*G
secp256k1_point_mul(i) == PowMod(Generator, i, FieldPrime)

\* secp256k1_point_add(r, a, b, 1): r = a + b
secp256k1_point_add(a, b) == (a * b) % FieldPrime

\* secp256k1_mod_add(a, b): (a + b) mod n
secp256k1_mod_add(a, b) == (a + b) % CurveOrder

CurvePoints == {secp256k1_point_mul(i) : i \in 0 .. (CurveOrder - 1)}

RECURSIVE Absorb(_, _)
Absorb(h, bytes) ==
    IF bytes = <<>> THEN h
    ELSE Absorb((h * 37 + Head(bytes) * 11 + 5) % UInt512Mod, Tail(bytes))

\* BRHMAC(&I, BRSHA512, 64, key, keyLen, data, dataLen)
BRHMAC(key, data) == Absorb((Absorb(17, key) * 3 + 1) % UInt512Mod, data)

\* *(UInt256 *)&I and *(UInt256 *)&I.u8[sizeof(UInt256)]
IL(I) == I \div ScalarMod
IR(I) == I % ScalarMod

\* be32(i) stored to memory: the bytes of i, most significant first
RECURSIVE BigEndian(_, _)
BigEndian(i, n) ==
    IF n = 0 THEN <<>>
    ELSE Append(BigEndian(i \div Pow2(ByteBits), n - 1), i % Pow2(ByteBits))

be32(i) == BigEndian(i, IndexBytes)

\* BRKey: the secret and the cached public key (0: not computed)
BRKeySetSecret(secret) == [secret |-> secret, pubKey |-> 0, compressed |-> 1]

ValidSecret(s) == s >= 1 /\ s < CurveOrder

\* BRKeyPubKey(&key, out, len): size written (0 on failure), the key with its
\* cache filled, and the output buffer
BRKeyPubKey(key, out) ==
    IF ValidSecret(key.secret)
    THEN [size |-> 1, key |-> [key EXCEPT !.pubKey = secp256k1_point_mul(key.secret)],
          out |-> secp256k1_point_mul(key.secret)]
    ELSE [size |-> 0, key |-> key, out |-> out]

\* hash160 of a public key, as its 32-bit words
Hash160(pubKey) == <<(5 * pubKey + 3) % ScalarMod, (7 * pubKey + 1) % ScalarMod>>

\* BRKeyHash160(&key): hash160 of the key's public key
BRKeyHash160(key) ==
    LET p == BRKeyPubKey(key, 0)
    IN  [key |-> p.key, hash |-> Hash160(p.out)]

BR_MASTER_PUBKEY_NONE == [fingerPrint |-> 0, chainCode |-> 0, pubKey |-> 0]

----------------------------------------------------------------------------
\* Child key derivation.

\* As CKDpriv, with the hardened message 0x00 || k || i built for every index
CKDprivHardMsg(k, c, i) ==
    LET buf == <<0, k>> \o be32(i)
        I   == BRHMAC(<<c>>, buf)
    IN  [k |-> secp256k1_mod_add(IL(I), k), c |-> IR(I), buf |-> 0, I |-> 0]

\* CKDpriv(&k, &c, i): the caller's k and c after the call, and the locals
\* buf and I as the call leaves them
CKDpriv(k, c, i) ==
    LET buf == (IF IsHard(i) THEN <<0, k>> ELSE <<secp256k1_point_mul(k)>>) \o be32(i)
        I   == BRHMAC(<<c>>, buf)
    IN  [k |-> secp256k1_mod_add(IL(I), k), c |-> IR(I), buf |-> 0, I |-> 0]

\* As CKDpub, without the early return for a hardened index
CKDpubNoGuard(K, c, i) ==
    LET buf == <<K>> \o be32(i)
        I   == BRHMAC(<<c>>, buf)
        pIL == secp256k1_point_mul(IL(I))
    IN  [K |-> secp256k1_point_add(pIL, K), c |-> IR(I), hmacs |-> 1, curveOps |-> 2]

\* CKDpub(&K, &c, i): the caller's K and c after the call, and the number of
\* HMAC and curve operations the call made
CKDpub(K, c, i) ==
    IF IsHard(i) THEN [K |-> K, c |-> c, hmacs |-> 0, curveOps |-> 0]
    ELSE LET buf == <<K>> \o be32(i)
             I   == BRHMAC(<<c>>, buf)
             pIL == secp256k1_point_mul(IL(I))
         IN  [K |-> secp256k1_point_add(pIL, K), c |-> IR(I), hmacs |-> 1, curveOps |-> 2]

----------------------------------------------------------------------------
\* As BRBIP32MasterPubKey, with the fingerprint taken after the account
\* derivation instead of before it
MasterPubKeyLateFingerPrint(seed, seedLen, mpk0) ==
    IF seed.null THEN [ret |-> BR_MASTER_PUBKEY_NONE, locals |-> [live |-> FALSE]]
    ELSE LET I    == BRHMAC(BIP32_SEED_KEY, SubSeq(seed.bytes, 1, seedLen))
             d    == CKDpriv(IL(I), IR(I), 0 + BIP32_HARD)
             key2 == BRKeySetSecret(d.k)
             h    == BRKeyHash160(key2)
             mpk1 == [mpk0 EXCEPT !.fingerPrint = h.hash[1]]
             mpk2 == [mpk1 EXCEPT !.chainCode = d.c]
             p    == BRKeyPubKey(key2, mpk2.pubKey)
             mpk3 == [mpk2 EXCEPT !.pubKey = p.out]
             end  == [live |-> TRUE, I |-> I, secret |-> d.k, chain |-> d.c,
                      key |-> p.key, pubKeySize |-> p.size]
         IN  IF p.size = 0 THEN [ret |-> BR_MASTER_PUBKEY_NONE, locals |-> end]
             ELSE [ret |-> mpk3, locals |-> end]

\* As BRBIP32MasterPubKey, with mpk.fingerPrint never assigned
MasterPubKeyNoFingerPrint(seed, seedLen, mpk0) ==
    IF seed.null THEN [ret |-> BR_MASTER_PUBKEY_NONE, locals |-> [live |-> FALSE]]
    ELSE LET I    == BRHMAC(BIP32_SEED_KEY, SubSeq(seed.bytes, 1, seedLen))
             d    == CKDpriv(IL(I), IR(I), 0 + BIP32_HARD)
             mpk2 == [mpk0 EXCEPT !.chainCode = d.c]
             key2 == BRKeySetSecret(d.k)
             p    == BRKeyPubKey(key2, mpk2.pubKey)
             mpk3 == [mpk2 EXCEPT !.pubKey = p.out]
             end  == [live |-> TRUE, I |-> I, secret |-> d.k, chain |-> d.c,
                      key |-> p.key, pubKeySize |-> p.size]
         IN  IF p.size = 0 THEN [ret |-> BR_MASTER_PUBKEY_NONE, locals |-> end]
             ELSE [ret |-> mpk3, locals |-> end]

\* BRBIP32MasterPubKey(seed, seedLen): the record returned and the locals I,
\* secret, chain and key as the call leaves them; mpk0 is the indeterminate
\* initial content of the local mpk
BRBIP32MasterPubKey(seed, seedLen, mpk0) ==
    IF seed.null THEN [ret |-> BR_MASTER_PUBKEY_NONE, locals |-> [live |-> FALSE]]
    ELSE LET I    == BRHMAC(BIP32_SEED_KEY, SubSeq(seed.bytes, 1, seedLen))
             key1 == BRKeySetSecret(IL(I))
             h    == BRKeyHash160(key1)
             mpk1 == [mpk0 EXCEPT !.fingerPrint = h.hash[1]]
             d    == CKDpriv(IL(I), IR(I), 0 + BIP32_HARD)
             mpk2 == [mpk1 EXCEPT !.chainCode = d.c]
             key2 == BRKeySetSecret(d.k)
             p    == BRKeyPubKey(key2, mpk2.pubKey)
             mpk3 == [mpk2 EXCEPT !.pubKey = p.out]
             end  == [live |-> TRUE, I |-> I, secret |-> d.k, chain |-> d.c,
                      key |-> p.key, pubKeySize |-> p.size]
         IN  IF p.size = 0 THEN [ret |-> BR_MASTER_PUBKEY_NONE, locals |-> end]
             ELSE [ret |-> mpk3, locals |-> end]

\* BRBIP32PubKey(mpk, internal, index): the local pubKey is returned as
\* declared; pubKey0 is its indeterminate content
BRBIP32PubKey(mpk, internal, index, pubKey0) == pubKey0

\* BRBIP32PrivKey(key, seed, seedlen, internal, index): *key after the call
BRBIP32PrivKey(key0, seed, seedlen, internal, index) == key0

\* BRBIP32PrivKeyList(keys, count, seed, seedlen, internal, indexes): keys[]
\* after the call
BRBIP32PrivKeyList(keys0, count, seed, seedlen, internal, indexes) == keys0

\* BRBIP32SerializeMasterPrivKey(s, len, seed, slen): the value returned and
\* the buffer s after the call
BRBIP32SerializeMasterPrivKey(s, len, seed, slen) == [n |-> 0, s |-> s]

\* BRBIP32SerializeMasterPubKey(s, len, mpk)
BRBIP32SerializeMasterPubKey(s, len, mpk) == [n |-> 0, s |-> s]

----------------------------------------------------------------------------
\* Inputs.

RECURSIVE SeqsOfLen(_, _)
SeqsOfLen(S, n) ==
    IF n = 0 THEN {<<>>}
    ELSE {Append(q, x) : q \in SeqsOfLen(S, n - 1), x \in S}

SeedBuffers == UNION {SeqsOfLen(SeedBytes, n) : n \in 0 .. MaxSeedLen}

NullSeed == [null |-> TRUE, bytes |-> <<>>]

\* (seed, seedLen) pairs: a null pointer with any length, or a buffer with a
\* length within it
SeedArgs ==
    {[seed |-> NullSeed, len |-> n] : n \in 0 .. MaxSeedLen}
    \cup UNION {{[seed |-> [null |-> FALSE, bytes |-> b], len |-> n] : n \in 0 .. Len(b)}
                : b \in SeedBuffers}

\* What a call reads of its seed: nothing of a null one, else the first len bytes
SeedKey(a) == IF a.seed.null THEN <<"null">> ELSE <<"bytes", SubSeq(a.seed.bytes, 1, a.len)>>

WholeSeeds == {a \in SeedArgs : a.seed.null \/ (a.len = Len(a.seed.bytes) /\ a.len = 1)}

Indeterminate == {0, 1}
UninitMpk == [fingerPrint : Indeterminate, chainCode : Indeterminate, pubKey : Indeterminate]
UninitPubKey == {0, Generator}

ApiIndices == {0, 1, BIP32_HARD}

MasterPubKeys ==
    {BRBIP32MasterPubKey(a.seed, a.len, BR_MASTER_PUBKEY_NONE).ret : a \in WholeSeeds}

\* The extended-key text: the 78-byte layout, its checksum and the terminator
Checksum(data) == Absorb(1, data) % ScalarMod

ExtendedKeyString(version, depth, fingerPrint, child, chain, key) ==
    LET data == version \o <<depth, fingerPrint>> \o be32(child) \o <<chain>> \o key
    IN  data \o <<Checksum(data), 0>>

MasterPrivKeyString(seed, slen) ==
    LET I == BRHMAC(BIP32_SEED_KEY, SubSeq(seed.bytes, 1, slen))
    IN  ExtendedKeyString(BIP32_XPRV, 0, 0, 0, IR(I), <<0, IL(I)>>)

MasterPubKeyString(mpk) ==
    ExtendedKeyString(BIP32_XPUB, 0, mpk.fingerPrint, 0, mpk.chainCode, <<mpk.pubKey>>)

XPrvLen == Len(MasterPrivKeyString([null |-> FALSE, bytes |-> <<>>], 0))
XPubLen == Len(MasterPubKeyString(BR_MASTER_PUBKEY_NONE))

\* Output buffers: absent, or len bytes of caller content
NullBuf == [null |-> TRUE, bytes |-> <<>>]
Buf(n) == [null |-> FALSE, bytes |-> [j \in 1 .. n |-> 7]]
OutBufs(need) == {NullBuf, Buf(0), Buf(need - 1), Buf(need)}

----------------------------------------------------------------------------
NoArgs == [none |-> TRUE]
NoLocals == [live |-> FALSE]

Init ==
    /\ op = "init"
    /\ args = NoArgs
    /\ ret = NoArgs
    /\ locals = NoLocals
    /\ watch \in {SeedKey(a) : a \in SeedArgs}
    /\ first = NoArgs

\* The outcomes BRBIP32MasterPubKey can have for each input, over every
\* initial content of its uninitialized local
MasterPubKeyCalls ==
    [a \in SeedArgs |-> {BRBIP32MasterPubKey(a.seed, a.len, mpk0) : mpk0 \in UninitMpk}]

\* A client calls BRBIP32MasterPubKey; the first record returned for the
\* watched seed is remembered
DoMasterPubKey ==
    \E a \in SeedArgs :
        \E r \in MasterPubKeyCalls[a] :
            /\ op' = "BRBIP32MasterPubKey"
            /\ args' = a
            /\ ret' = r.ret
            /\ locals' = r.locals
            /\ first' = IF SeedKey(a) # watch THEN first
                        ELSE IF first = NoArgs THEN [mpk |-> r.ret, calls |-> 1]
                        ELSE [first EXCEPT !.calls = 2]
            /\ UNCHANGED watch

DoPubKey ==
    \E mpk \in MasterPubKeys, internal \in {0, 1}, index \in ApiIndices,
       pubKey0 \in UninitPubKey :
        /\ op' = "BRBIP32PubKey"
        /\ args' = [mpk |-> mpk, internal |-> internal, index |-> index]
        /\ ret' = [pubKey |-> BRBIP32PubKey(mpk, internal, index, pubKey0)]
        /\ locals' = NoLocals
        /\ UNCHANGED <<watch, first>>

DoPrivKey ==
    \E key0 \in {0, 3}, a \in WholeSeeds, internal \in {0, 1}, index \in ApiIndices :
        /\ op' = "BRBIP32PrivKey"
        /\ args' = [key |-> key0, seed |-> a.seed, len |-> a.len,
                    internal |-> internal, index |-> index]
        /\ ret' = [key |-> BRBIP32PrivKey(key0, a.seed, a.len, internal, index)]
        /\ locals' = NoLocals
        /\ UNCHANGED <<watch, first>>

DoPrivKeyList ==
    \E count \in 0 .. MaxKeys, a \in WholeSeeds, internal \in {0, 1} :
        LET keys0   == [j \in 1 .. count |-> 3]
            indexes == [j \in 1 .. count |-> j - 1]
        IN  /\ op' = "BRBIP32PrivKeyList"
            /\ args' = [keys |-> keys0, count |-> count, seed |-> a.seed, len |-> a.len,
                        internal |-> internal, indexes |-> indexes]
            /\ ret' = [keys |-> BRBIP32PrivKeyList(keys0, count, a.seed, a.len,
                                                   internal, indexes)]
            /\ locals' = NoLocals
            /\ UNCHANGED <<watch, first>>

DoSerializeMasterPrivKey ==
    \E s \in OutBufs(XPrvLen), a \in WholeSeeds :
        /\ op' = "BRBIP32SerializeMasterPrivKey"
        /\ args' = [s |-> s, len |-> Len(s.bytes), seed |-> a.seed, slen |-> a.len]
        /\ ret' = BRBIP32SerializeMasterPrivKey(s, Len(s.bytes), a.seed, a.len)
        /\ locals' = NoLocals
        /\ UNCHANGED <<watch, first>>

DoSerializeMasterPubKey ==
    \E s \in OutBufs(XPubLen), mpk \in MasterPubKeys :
        /\ op' = "BRBIP32SerializeMasterPubKey"
        /\ args' = [s |-> s, len |-> Len(s.bytes), mpk |-> mpk]
        /\ ret' = BRBIP32SerializeMasterPubKey(s, Len(s.bytes), mpk)
        /\ locals' = NoLocals
        /\ UNCHANGED <<watch, first>>

Next ==
    \/ DoMasterPubKey
    \/ DoPubKey
    \/ DoPrivKey
    \/ DoPrivKeyList
    \/ DoSerializeMasterPrivKey
    \/ DoSerializeMasterPubKey

Spec == Init /\ [][Next]_vars

----------------------------------------------------------------------------
\* One derivation step from a parent drawn at the start: the private parent
\* (k, c), its public counterpart (K, c) with K = point(k), and the index i.

InitCKD ==
    /\ op = "init"
    /\ \E k \in UInt256, c \in UInt256, i \in Indices :
          args = [k |-> k, K |-> secp256k1_point_mul(k), c |-> c, i |-> i]
    /\ ret = NoArgs
    /\ locals = NoLocals
    /\ watch = <<"null">>
    /\ first = NoArgs

DoCKDpriv ==
    /\ op = "init"
    /\ op' = "CKDpriv"
    /\ ret' = CKDpriv(args.k, args.c, args.i)
    /\ UNCHANGED <<args, locals, watch, first>>

DoCKDpub ==
    /\ op = "init"
    /\ op' = "CKDpub"
    /\ ret' = CKDpub(args.K, args.c, args.i)
    /\ UNCHANGED <<args, locals, watch, first>>

NextCKD == DoCKDpriv \/ DoCKDpub

SpecCKD == InitCKD /\ [][NextCKD]_vars

----------------------------------------------------------------------------
\* Claims.

\* C1: BRBIP32MasterPubKey returns the none sentinel whenever the seed is null
\* or the seed length is 0, a non-null seed with seedLen = 0 included.
C1_NoneForNullOrEmptySeed ==
    (op = "BRBIP32MasterPubKey" /\ (args.seed.null \/ args.len = 0))
        => ret = BR_MASTER_PUBKEY_NONE

\* C2: for a non-hardened index, BRBIP32PubKey of the master public key of a
\* seed returns the public point of the scalar BRBIP32PrivKey writes for the
\* same seed, chain and index.
C2_PubKeyMatchesPrivKey ==
    (op = "BRBIP32PrivKey" /\ ~args.seed.null /\ ~IsHard(args.index))
        => \A mpk0 \in UninitMpk, pubKey0 \in UninitPubKey :
              BRBIP32PubKey(BRBIP32MasterPubKey(args.seed, args.len, mpk0).ret,
                            args.internal, args.index, pubKey0)
                  = secp256k1_point_mul(ret.key)

\* C3: a public derivation at a hardened index never hands the caller a value
\* that reads as a derived public key: what comes back is no curve point.
C3_HardenedPubKeyRejected ==
    (op = "BRBIP32PubKey" /\ IsHard(args.index)) => ret.pubKey \notin CurvePoints

\* C4: the serializers follow the length-probing contract: with the buffer
\* absent or shorter than the formatted string they return the length needed
\* and write nothing, otherwise they write the string and return its length.
C4_SerializeLengthProbing ==
    LET str == IF op = "BRBIP32SerializeMasterPrivKey"
               THEN MasterPrivKeyString(args.seed, args.slen)
               ELSE MasterPubKeyString(args.mpk)
    IN  ((op = "BRBIP32SerializeMasterPrivKey" /\ ~args.seed.null)
         \/ op = "BRBIP32SerializeMasterPubKey")
            => IF args.s.null \/ args.len < Len(str)
               THEN ret.n = Len(str) /\ ret.s = args.s
               ELSE ret.n = Len(str) /\ SubSeq(ret.s.bytes, 1, Len(str)) = str
                    /\ Len(ret.s.bytes) = args.len

\* C5: for a non-empty seed whose public key computation succeeds, the record
\* returned holds the fingerprint of the master secret IL taken before the
\* account derivation, and the chain code and the public point of the scalar
\* of CKDpriv(IL, IR, 0 hardened).
C5_MasterPubKeyFields ==
    (op = "BRBIP32MasterPubKey" /\ ~args.seed.null /\ args.len > 0
     /\ locals.pubKeySize # 0)
        => LET I == BRHMAC(BIP32_SEED_KEY, SubSeq(args.seed.bytes, 1, args.len))
               d == CKDpriv(IL(I), IR(I), BIP32_HARD)
           IN  /\ ret.fingerPrint = Hash160(BRKeyPubKey(BRKeySetSecret(IL(I)), 0).out)[1]
               /\ ret.chainCode = d.c
               /\ ret.pubKey = secp256k1_point_mul(d.k)

C5_Witness ==
    /\ op = "BRBIP32MasterPubKey" /\ ~args.seed.null /\ args.len = MaxSeedLen
    /\ locals.pubKeySize # 0
    /\ ret.pubKey \in CurvePoints /\ ret.fingerPrint # 0

\* C6: every call of BRBIP32MasterPubKey with the watched seed bytes and length
\* returns the record the first such call returned, whatever was called in
\* between.
C6_MasterPubKeyDeterministic ==
    (op = "BRBIP32MasterPubKey" /\ SeedKey(args) = watch) => first.mpk = ret

C6_Witness ==
    /\ op = "BRBIP32MasterPubKey" /\ SeedKey(args) = watch
    /\ first.calls = 2 /\ args.len > 0 /\ ret # BR_MASTER_PUBKEY_NONE

\* C7: every scalar a CKDpriv step hands on lies in 1 .. n-1.
C7_ChildScalarInRange ==
    op = "CKDpriv" => ValidSecret(ret.k)

\* C8: when BRBIP32MasterPubKey returns, the locals that held secret material
\* (I, secret, chain, key) hold only zeros.
C8_LocalsZeroedOnReturn ==
    (op = "BRBIP32MasterPubKey" /\ locals.live)
        => /\ locals.I = 0 /\ locals.secret = 0 /\ locals.chain = 0
           /\ locals.key.secret = 0 /\ locals.key.pubKey = 0

\* C9: CKDpub at a hardened index leaves K and c as they were and performs no
\* HMAC and no curve operation.
C9_HardenedCKDpubNoEffect ==
    (op = "CKDpub" /\ IsHard(args.i))
        => /\ ret.K = args.K /\ ret.c = args.c
           /\ ret.hmacs = 0 /\ ret.curveOps = 0

C9_Witness ==
    op = "CKDpub" /\ IsHard(args.i) /\ args.K # 1 /\ args.c # 0

\* C10: for a non-hardened index, if CKDpriv(k, c, i) yields (k', c') then
\* CKDpub(point(k), c, i) yields (point(k'), c').
C10_DerivationCommutesWithPoint ==
    /\ (op = "CKDpriv" /\ ~IsHard(args.i))
          => LET r == CKDpub(secp256k1_point_mul(args.k), args.c, args.i)
             IN  r.K = secp256k1_point_mul(ret.k) /\ r.c = ret.c
    /\ (op = "CKDpub" /\ ~IsHard(args.i))
          => LET r == CKDpriv(args.k, args.c, args.i)
             IN  ret.K = secp256k1_point_mul(r.k) /\ ret.c = r.c

C10_Witness ==
    /\ op = "CKDpriv" /\ ~IsHard(args.i) /\ args.i > 0
    /\ ret.k # args.k /\ ret.c # args.c /\ ValidSecret(ret.k)

====
